---- MODULE Spec2Model ----
(***************************************************************************)
(* A model of src/duckhunt.js: the window.onload handler, createDog with   *)
(* its nested setInterval/setTimeout callbacks, createDuck with its        *)
(* interval callbacks and click handler, and checkForWinner.               *)
(*                                                                         *)
(* Timers registered at load time (the dog's, and the 6500 ms spawn        *)
(* timeouts) live in the queue `timers`, ordered by due time and, for      *)
(* equal due times, by registration order; firing the head sets `now`.     *)
(* A duck's own timers are kept without due times: its two setInterval     *)
(* callbacks are never cleared, so they can always fire, and the number of *)
(* its pending 500 ms removal timeouts is the field `pending`.  SpecShot    *)
(* follows the removal timeouts in real time: there each click also puts   *)
(* its timeout into `timers`, and the time of the click into `shotAt`.     *)
(*                                                                         *)
(* Lengths are in px and times in ms, as in the source.  Math.random() is  *)
(* a value k/Den with k in 0..Den-1; a position Math.random()*innerWidth   *)
(* is kept as the numerator k*innerWidth, in units of 1/PosDen px.         *)
(* `target` holds twice the source's target, (innerWidth - 171), so that   *)
(* the comparison current > target stays in the integers.                  *)
(*                                                                         *)
(* `ducks` holds, for every duck element in creation order, what the DOM   *)
(* and the timer table hold about it.  The style and class state written   *)
(* by createDuck and the interval callbacks (flap, right, top, left) and   *)
(* the closure variable lateralPosition are kept in `look` for one duck,   *)
(* the one numbered `watched` (0: none); every duck runs the same closures *)
(* on its own element only.  `watched` never changes.                      *)
(*                                                                         *)
(* `audio` is what became of game_start.play(): the sound plays, or the    *)
(* promise play() returned was rejected (autoplay not allowed, file not    *)
(* found); play() reports neither by throwing.                             *)
(***************************************************************************)
EXTENDS Integers, Sequences, FiniteSets, TLC

VARIABLES audio, now, timers, innerWidth, innerHeight,
          dog, current, target, dogErrors,
          ducks, look, watched, alertOpen, rounds, extraClicks, duckErrors,
          loop

vars == <<audio, now, timers, innerWidth, innerHeight, dog, current, target,
          dogErrors, ducks, look, watched, alertOpen, rounds, extraClicks,
          duckErrors, loop>>

dogVars == <<dog, current, target, dogErrors>>
duckVars == <<ducks, look, alertOpen, rounds, extraClicks, duckErrors>>

(* ------------------------------ bounds -------------------------------- *)

\* the timed specification explores the timers due up to this time (ms)
MaxTime == 7200
\* Math.random() at the spawn loops: k/LoopDen
LoopDen == 8
\* Math.random() at the position draws: k/PosDen
PosDen == 3
\* rounds with more ducks than this are not explored
MaxSpawn == 3
\* batches spawned by checkForWinner that are explored
MaxRespawns == 1
\* clicks on ducks that are already shot that are explored
MaxExtraClicks == 1
\* the user's waits between clicks are explored in steps of this many ms
WaitMs == 100
\* Math.random() at the interval delays: k/PeriodDen
PeriodDen == 4
\* a duck's interval callbacks are followed for this long after its spawn (ms)
MaxFlight == 4000
JqMaxWait == 300

(* ------------------------- program constants -------------------------- *)

DogWidth == 171
DogStart == -171
StepPx == 20
timeMultiplier == 1
OuterMs == 1200
InnerMs == 900
LeapMs == 1000
GoneMs == 1500
PollMs == 100
ScaledUpHeight == 558
DogBottomOffset == 200
SpawnDelayMs == 6500
ShotDelayMs == 500
FlapBase == 100
FlapSpan == 200
MoveBase == 500
MoveSpan == 1500
JqNumDucks == 5
JqShotDelayMs == 250
JqBodyOthers == 1
SpawnBase == 3
SpawnSpan == 7

\* window sizes the load and the resize events choose from
Widths == {320, 349, 1024}
Heights == {558, 768}

\* delays of the eight setTimeout calls of one inner-interval callback
StepOffsets == <<0, 100, 200, 300, 400, 500, 700, 800>>

(* ------------------------------ timers -------------------------------- *)

Timer(kind, due, idx) == [kind |-> kind, due |-> due, idx |-> idx]

\* setTimeout/setInterval: the new timer runs after every timer due no later
Schedule(q, t) ==
    LET k == Cardinality({i \in 1..Len(q) : q[i].due <= t.due})
    IN  SubSeq(q, 1, k) \o <<t>> \o SubSeq(q, k + 1, Len(q))

RECURSIVE ScheduleAll(_, _)
ScheduleAll(q, ts) ==
    IF ts = <<>> THEN q ELSE ScheduleAll(Schedule(q, Head(ts)), Tail(ts))

\* the timer the event loop runs next
HeadDue(kind) ==
    /\ timers # <<>>
    /\ timers[1].kind = kind
    /\ timers[1].due <= MaxTime

(* --------------------------- the spawn loops -------------------------- *)

\* a loop bound of Math.random() * 10 + 3
LoopContinuesSpan10(i, k) == i * LoopDen < k * 10 + SpawnBase * LoopDen

\* i < (Math.random() * 7) + 3, with Math.random() = k/LoopDen
LoopContinues(i, k) == i * LoopDen < k * SpawnSpan + SpawnBase * LoopDen

\* the numbers of iterations the for loop can make from counter i on, over
\* all draws of Math.random(), which is drawn again at every test
RECURSIVE LoopCounts(_)
LoopCounts(i) ==
    (IF \E k \in 0..(LoopDen - 1) : ~LoopContinues(i, k) THEN {i} ELSE {})
    \cup
    (IF \E k \in 0..(LoopDen - 1) : LoopContinues(i, k)
     THEN LoopCounts(i + 1) ELSE {})

SpawnCounts == {n \in LoopCounts(0) : n <= MaxSpawn}

(* ------------------------------- ducks -------------------------------- *)

\* a duck element right after createDuck: attached to the body, class 'duck'
\* clicks, detaches and winChecks count the click events on it, the times it was
\* detached and the calls of checkForWinner made by its removal callbacks;
\* shotAt is the time of the click that shot it, where time is kept
NewDuck == [attached |-> TRUE, shot |-> FALSE, pending |-> 0,
            clicks |-> 0, detaches |-> 0, winChecks |-> 0, shotAt |-> 0]

NoLook == [flap |-> FALSE, right |-> FALSE, top |-> 0, left |-> 0,
           lateralPosition |-> 0]

\* createDuck's initial position, from the draws ry and rx of Math.random()
SpawnLook(ry, rx) ==
    [flap |-> FALSE, right |-> FALSE,
     top |-> ry * innerHeight, left |-> rx * innerWidth,
     lateralPosition |-> rx * innerWidth]

\* createDuck()
CreateDuck(ry, rx) ==
    /\ ducks' = Append(ducks, NewDuck)
    /\ look' = IF Len(ducks) + 1 = watched THEN SpawnLook(ry, rx) ELSE look

\* n calls of createDuck() in a row, the watched duck not among them
RECURSIVE CreateDucks(_, _)
CreateDucks(ds, n) ==
    IF n = 0 THEN ds ELSE CreateDucks(Append(ds, NewDuck), n - 1)

\* the ducks in the document
Attached(ds) == {d \in 1..Len(ds) : ds[d].attached}

\* document.querySelectorAll('.duck').length
DuckCount(ds) == Cardinality({d \in 1..Len(ds) : ds[d].attached})

(* -------------------------------- dog --------------------------------- *)

\* a test that reads the window width again at every callback
DogReachedMiddleNow == 2 * current > innerWidth - DogWidth

\* a test that lets the dog go one step further before it succeeds
DogReachedMiddleLate == 2 * current > target + 2 * StepPx

\* let dogReachedMiddle = current > target
DogReachedMiddle == 2 * current > target

\* callbacks of which the sniffing ones also move the dog forward
StepWalkSniffingAhead(i) ==
    CASE i \in {1, 7} -> /\ dog' = [dog EXCEPT !.classes = @ \cup {"sniff"},
                                                !.left = current + StepPx]
                         /\ current' = current + StepPx
      [] i \in {2, 8} -> /\ dog' = [dog EXCEPT !.classes = @ \ {"sniff"}]
                         /\ current' = current
      [] i \in {3, 5} -> /\ current' = current + StepPx
                         /\ dog' = [dog EXCEPT !.left = current + StepPx,
                                               !.classes = @ \cup
                                                 {IF i = 3 THEN "lift-left-leg"
                                                  ELSE "lift-right-leg"}]
      [] i \in {4, 6} -> /\ current' = current + StepPx
                         /\ dog' = [dog EXCEPT !.left = current + StepPx,
                                               !.classes = @ \
                                                 {IF i = 4 THEN "lift-left-leg"
                                                  ELSE "lift-right-leg"}]

\* what each of the eight timeouts does while the dog has not reached the middle
StepWalk(i) ==
    CASE i \in {1, 7} -> /\ dog' = [dog EXCEPT !.classes = @ \cup {"sniff"}]
                         /\ current' = current
      [] i \in {2, 8} -> /\ dog' = [dog EXCEPT !.classes = @ \ {"sniff"}]
                         /\ current' = current
      [] i = 3 -> /\ current' = current + StepPx
                  /\ dog' = [dog EXCEPT !.left = current + StepPx,
                                        !.classes = @ \cup {"lift-left-leg"}]
      [] i = 4 -> /\ current' = current + StepPx
                  /\ dog' = [dog EXCEPT !.left = current + StepPx,
                                        !.classes = @ \ {"lift-left-leg"}]
      [] i = 5 -> /\ current' = current + StepPx
                  /\ dog' = [dog EXCEPT !.left = current + StepPx,
                                        !.classes = @ \cup {"lift-right-leg"}]
      [] i = 6 -> /\ current' = current + StepPx
                  /\ dog' = [dog EXCEPT !.left = current + StepPx,
                                        !.classes = @ \ {"lift-right-leg"}]

\* exit timeouts whose delays each count from the one before
ExitTimersInTurn(t) ==
    << Timer("surprise", t, 0), Timer("leap", t + LeapMs, 0),
       Timer("remove", t + LeapMs + GoneMs, 0) >>

\* an else-branch that registers no removal timeout
ExitTimersNoRemove(t) ==
    << Timer("surprise", t, 0), Timer("leap", t + LeapMs, 0) >>

\* the three timeouts every callback registers once the dog has reached the middle
ExitTimers(t) ==
    << Timer("surprise", t, 0), Timer("leap", t + LeapMs, 0),
       Timer("remove", t + GoneMs, 0) >>

(* ------------------------------- Init --------------------------------- *)

\* the outcomes of game_start.play()
PlayOutcomes == {"playing", "rejected"}

\* an onload handler that play() leaves by throwing when the sound does
\* not play: nothing after line 29 runs
LoadUnlessPlayThrows(w, h, watch) ==
    /\ audio \in PlayOutcomes
    /\ watched = watch
    /\ now = 0
    /\ innerWidth = w
    /\ innerHeight = h
    /\ dog = [attached |-> (audio = "playing"), classes |-> {"dog"},
              left |-> DogStart, top |-> [n |-> 0, unit |-> ""],
              surprisedAt |-> -1, leapingAt |-> -1, goneAt |-> -1]
    /\ current = DogStart
    /\ target = innerWidth - DogWidth
    /\ dogErrors = 0
    /\ \E n \in SpawnCounts :
         timers = IF audio = "playing"
                  THEN ScheduleAll(<<>>,
                         << Timer("outer", OuterMs, 0), Timer("poll", PollMs, 0) >>
                         \o [i \in 1..n |-> Timer("spawn", SpawnDelayMs, i)])
                  ELSE <<>>
    /\ ducks = <<>>
    /\ look = NoLook
    /\ alertOpen = FALSE
    /\ rounds = 0
    /\ extraClicks = 0
    /\ duckErrors = 0
    /\ loop = [site |-> "none", i |-> 0, r |-> 0, made |-> 0, done |-> TRUE]

\* an onload handler that ends with a call of checkForWinner(): with no duck
\* in the document yet, it opens the win alert
LoadChecksWin(w, h, watch) ==
    /\ audio \in PlayOutcomes
    /\ watched = watch
    /\ now = 0
    /\ innerWidth = w
    /\ innerHeight = h
    /\ dog = [attached |-> TRUE, classes |-> {"dog"}, left |-> DogStart,
              top |-> [n |-> 0, unit |-> ""],
              surprisedAt |-> -1, leapingAt |-> -1, goneAt |-> -1]
    /\ current = DogStart
    /\ target = innerWidth - DogWidth
    /\ dogErrors = 0
    /\ \E n \in SpawnCounts :
         timers = ScheduleAll(<<>>,
                    << Timer("outer", OuterMs, 0), Timer("poll", PollMs, 0) >>
                    \o [i \in 1..n |-> Timer("spawn", SpawnDelayMs, i)])
    /\ ducks = <<>>
    /\ look = NoLook
    /\ alertOpen = (DuckCount(ducks) = 0)
    /\ rounds = 0
    /\ extraClicks = 0
    /\ duckErrors = 0
    /\ loop = [site |-> "none", i |-> 0, r |-> 0, made |-> 0, done |-> TRUE]

\* the state when window.onload returns in a window of w by h px: the dog
\* is created, its two intervals and the spawn timeouts are registered
\* (surprisedAt, leapingAt and goneAt are the times at which the dog first got
\* 'surprise', first got 'leap-into-bushes' and was detached; -1: not yet)
Load(w, h, watch) ==
    /\ audio \in PlayOutcomes
    /\ watched = watch
    /\ now = 0
    /\ innerWidth = w
    /\ innerHeight = h
    /\ dog = [attached |-> TRUE, classes |-> {"dog"}, left |-> DogStart,
              top |-> [n |-> 0, unit |-> ""],
              surprisedAt |-> -1, leapingAt |-> -1, goneAt |-> -1]
    /\ current = DogStart
    /\ target = innerWidth - DogWidth
    /\ dogErrors = 0
    /\ \E n \in SpawnCounts :
         timers = ScheduleAll(<<>>,
                    << Timer("outer", OuterMs, 0), Timer("poll", PollMs, 0) >>
                    \o [i \in 1..n |-> Timer("spawn", SpawnDelayMs, i)])
    /\ ducks = <<>>
    /\ look = NoLook
    /\ alertOpen = FALSE
    /\ rounds = 0
    /\ extraClicks = 0
    /\ duckErrors = 0
    /\ loop = [site |-> "none", i |-> 0, r |-> 0, made |-> 0, done |-> TRUE]

Init == \E w \in Widths, h \in Heights : Load(w, h, 0)

\* the page loaded in one window size, the sound playing
InitWindow(watch) == Load(1024, 768, watch) /\ audio = "playing"

(* --------------------------- dog callbacks ---------------------------- *)

\* an outer callback that registers two more inner intervals at every run
OuterIntervalTwice ==
    /\ HeadDue("outer")
    /\ now' = timers[1].due
    /\ timers' = ScheduleAll(Tail(timers),
                   << Timer("outer", timers[1].due + OuterMs, 0),
                      Timer("inner", timers[1].due + timeMultiplier * InnerMs, 0),
                      Timer("inner", timers[1].due + timeMultiplier * InnerMs, 0) >>)
    /\ UNCHANGED <<audio, watched, innerWidth, innerHeight, dogVars, duckVars, loop>>

\* the outer setInterval callback: registers one more inner interval
OuterInterval ==
    /\ HeadDue("outer")
    /\ now' = timers[1].due
    /\ timers' = ScheduleAll(Tail(timers),
                   << Timer("outer", timers[1].due + OuterMs, 0),
                      Timer("inner", timers[1].due + timeMultiplier * InnerMs, 0) >>)
    /\ UNCHANGED <<audio, watched, innerWidth, innerHeight, dogVars, duckVars, loop>>

\* an inner setInterval callback: registers the eight timeouts
InnerInterval ==
    /\ HeadDue("inner")
    /\ now' = timers[1].due
    /\ timers' = ScheduleAll(Tail(timers),
                   << Timer("inner", timers[1].due + timeMultiplier * InnerMs, 0) >>
                   \o [i \in 1..8 |->
                         Timer("step", timers[1].due + timeMultiplier * StepOffsets[i], i)])
    /\ UNCHANGED <<audio, watched, innerWidth, innerHeight, dogVars, duckVars, loop>>

\* one of the eight timeouts of an inner-interval callback
DogStep ==
    /\ HeadDue("step")
    /\ now' = timers[1].due
    /\ IF ~DogReachedMiddle
       THEN /\ StepWalk(timers[1].idx)
            /\ timers' = Tail(timers)
       ELSE \* clearInterval() is called without an id: it clears nothing
            /\ timers' = ScheduleAll(Tail(timers), ExitTimers(timers[1].due))
            /\ UNCHANGED <<audio, watched, dog, current>>
    /\ UNCHANGED <<audio, watched, innerWidth, innerHeight, target, dogErrors, duckVars, loop>>

\* dog.classList.add(`surprise`)
DogSurprise ==
    /\ HeadDue("surprise")
    /\ now' = timers[1].due
    /\ timers' = Tail(timers)
    /\ dog' = [dog EXCEPT !.classes = @ \cup {"surprise"},
                          !.surprisedAt = IF @ < 0 THEN timers[1].due ELSE @]
    /\ UNCHANGED <<audio, watched, innerWidth, innerHeight, current, target, dogErrors,
                   duckVars, loop>>

\* dog.classList.remove(`surprise`); dog.classList.add(`leap-into-bushes`)
DogLeap ==
    /\ HeadDue("leap")
    /\ now' = timers[1].due
    /\ timers' = Tail(timers)
    /\ dog' = [dog EXCEPT !.classes = (@ \ {"surprise"}) \cup {"leap-into-bushes"},
                          !.leapingAt = IF @ < 0 THEN timers[1].due ELSE @]
    /\ UNCHANGED <<audio, watched, innerWidth, innerHeight, current, target, dogErrors,
                   duckVars, loop>>

\* dog.parentNode.removeChild(dog): a TypeError once parentNode is null
DogRemove ==
    /\ HeadDue("remove")
    /\ now' = timers[1].due
    /\ timers' = Tail(timers)
    /\ IF dog.attached
       THEN /\ dog' = [dog EXCEPT !.attached = FALSE, !.goneAt = timers[1].due]
            /\ dogErrors' = dogErrors
       ELSE /\ dogErrors' = dogErrors + 1
            /\ dog' = dog
    /\ UNCHANGED <<audio, watched, innerWidth, innerHeight, current, target, duckVars, loop>>

\* a poll that takes the background for scaled up from 558 px on
DogPollFromBreakpoint ==
    /\ HeadDue("poll")
    /\ now' = timers[1].due
    /\ timers' = Schedule(Tail(timers), Timer("poll", timers[1].due + PollMs, 0))
    /\ dog' = [dog EXCEPT !.top =
                 IF innerHeight >= ScaledUpHeight
                 THEN [n |-> 72, unit |-> "vh"]
                 ELSE [n |-> innerHeight - DogBottomOffset, unit |-> "px"]]
    /\ UNCHANGED <<audio, watched, innerWidth, innerHeight, current, target, dogErrors,
                   duckVars, loop>>

\* the 100 ms interval that sets dog.style.top
DogPoll ==
    /\ HeadDue("poll")
    /\ now' = timers[1].due
    /\ timers' = Schedule(Tail(timers), Timer("poll", timers[1].due + PollMs, 0))
    /\ dog' = [dog EXCEPT !.top =
                 IF innerHeight > ScaledUpHeight
                 THEN [n |-> 72, unit |-> "vh"]
                 ELSE [n |-> innerHeight - DogBottomOffset, unit |-> "px"]]
    /\ UNCHANGED <<audio, watched, innerWidth, innerHeight, current, target, dogErrors,
                   duckVars, loop>>

\* a 6500 ms timeout of the initial spawn loop, run in its turn
SpawnTimeout ==
    /\ HeadDue("spawn")
    /\ now' = timers[1].due
    /\ timers' = Tail(timers)
    /\ \E ry \in 0..(PosDen - 1), rx \in 0..(PosDen - 1) : CreateDuck(ry, rx)
    /\ UNCHANGED <<audio, watched, innerWidth, innerHeight, dogVars, alertOpen, rounds,
                   extraClicks, duckErrors, loop>>

\* the user resizes the window
Resize ==
    /\ \E w \in Widths, h \in Heights :
         /\ <<w, h>> # <<innerWidth, innerHeight>>
         /\ innerWidth' = w
         /\ innerHeight' = h
    /\ UNCHANGED <<audio, watched, now, timers, dogVars, duckVars, loop>>

NextDog ==
    \/ OuterInterval
    \/ InnerInterval
    \/ DogStep
    \/ DogSurprise
    \/ DogLeap
    \/ DogRemove
    \/ DogPoll
    \/ SpawnTimeout
    \/ Resize

\* the load-time timers in real time: the dog intro and the initial spawn
SpecDog == Init /\ [][NextDog]_vars

(* -------------------------- duck callbacks ---------------------------- *)

\* the spawn timeouts of the initial loop that have not run yet
SpawnPending == \E i \in 1..Len(timers) : timers[i].kind = "spawn"

\* a 6500 ms timeout of the initial spawn loop, apart from the dog's timers
InitialSpawn ==
    /\ SpawnPending
    /\ LET i == CHOOSE j \in 1..Len(timers) :
                   /\ timers[j].kind = "spawn"
                   /\ \A h \in 1..(j - 1) : timers[h].kind # "spawn"
       IN  timers' = SubSeq(timers, 1, i - 1) \o SubSeq(timers, i + 1, Len(timers))
    /\ \E ry \in 0..(PosDen - 1), rx \in 0..(PosDen - 1) : CreateDuck(ry, rx)
    /\ UNCHANGED <<audio, watched, now, innerWidth, innerHeight, dogVars, alertOpen, rounds,
                   extraClicks, duckErrors, loop>>

\* a click handler that marks every duck in the document as shot
ClickShootsAll(d) ==
    /\ ~alertOpen
    /\ ducks[d].attached
    /\ IF ducks[d].shot
       THEN /\ extraClicks < MaxExtraClicks
            /\ extraClicks' = extraClicks + 1
       ELSE extraClicks' = extraClicks
    /\ ducks' = [e \in 1..Len(ducks) |->
                  IF e = d
                  THEN [ducks[e] EXCEPT !.shot = TRUE, !.pending = @ + 1,
                                        !.clicks = @ + 1]
                  ELSE [ducks[e] EXCEPT !.shot = @ \/ ducks[e].attached]]
    /\ UNCHANGED <<audio, watched, now, timers, innerWidth, innerHeight, dogVars, look,
                   alertOpen, rounds, duckErrors, loop>>

\* the click handler: event.target.classList.add('shot'); setTimeout(..., 500)
Click(d) ==
    /\ ~alertOpen
    /\ ducks[d].attached
    /\ IF ducks[d].shot
       THEN /\ extraClicks < MaxExtraClicks
            /\ extraClicks' = extraClicks + 1
       ELSE extraClicks' = extraClicks
    /\ ducks' = [ducks EXCEPT ![d].shot = TRUE, ![d].pending = @ + 1,
                              ![d].clicks = @ + 1]
    /\ UNCHANGED <<audio, watched, now, timers, innerWidth, innerHeight, dogVars, look,
                   alertOpen, rounds, duckErrors, loop>>

\* a removal that hides the element and leaves it in the document
RemovedHidden(duck) ==
    [duck EXCEPT !.pending = @ - 1, !.detaches = @ + 1, !.winChecks = @ + 1]

\* the duck element after duck.parentNode.removeChild(duck); checkForWinner()
Removed(duck) ==
    [duck EXCEPT !.pending = @ - 1, !.attached = FALSE,
                 !.detaches = @ + 1, !.winChecks = @ + 1]

\* a callback that skips removeChild on a detached duck and goes on to
\* checkForWinner()
RemoveSilently(duck) == [duck EXCEPT !.pending = @ - 1, !.winChecks = @ + 1]

\* the duck element after the callback threw: parentNode is null
RemoveThrew(duck) == [duck EXCEPT !.pending = @ - 1]

\* a win check that counts only the ducks not yet shot
NoUnshotDucksLeft(ds) ==
    \A d \in 1..Len(ds) : ~(ds[d].attached /\ ~ds[d].shot)

\* a win check that runs before the duck is detached and still counts it
NoDucksLeftBeforeRemoval(ds) == DuckCount(ds) + 1 = 0

\* the if of checkForWinner: ducks.length === 0
NoDucksLeft(ds) == DuckCount(ds) = 0

\* the 500 ms timeout of a click, up to the alert of checkForWinner.  It
\* is registered after the 6500 ms spawn timeouts are due, so it runs after
\* them; the alert blocks the event loop until it is dismissed.
RemoveTimeout(d) ==
    /\ ~alertOpen
    /\ ~SpawnPending
    /\ ducks[d].pending > 0
    /\ IF ducks[d].attached
       THEN /\ ducks' = [ducks EXCEPT ![d] = Removed(@)]
            /\ alertOpen' = NoDucksLeft(ducks')
            /\ duckErrors' = duckErrors
       ELSE /\ ducks' = [ducks EXCEPT ![d] = RemoveThrew(@)]
            /\ duckErrors' = duckErrors + 1
            /\ alertOpen' = alertOpen
    /\ UNCHANGED <<audio, watched, now, timers, innerWidth, innerHeight, dogVars, look,
                   rounds, extraClicks, loop>>

\* a restart that spawns the ducks as the page load does, by 6500 ms timeouts
DismissDelayed ==
    /\ alertOpen
    /\ rounds < MaxRespawns
    /\ \E n \in SpawnCounts :
         timers' = ScheduleAll(timers,
                     [i \in 1..n |-> Timer("spawn", now + SpawnDelayMs, i)])
    /\ alertOpen' = FALSE
    /\ rounds' = rounds + 1
    /\ UNCHANGED <<audio, watched, now, innerWidth, innerHeight, dogVars, ducks, look,
                   extraClicks, duckErrors, loop>>

\* a restart that calls createDog() again before it spawns the ducks
DismissWithDog ==
    /\ alertOpen
    /\ rounds < MaxRespawns
    /\ \E n \in SpawnCounts : ducks' = CreateDucks(ducks, n)
    /\ alertOpen' = FALSE
    /\ rounds' = rounds + 1
    /\ dog' = [attached |-> TRUE, classes |-> {"dog"}, left |-> DogStart,
               top |-> [n |-> 0, unit |-> ""],
               surprisedAt |-> -1, leapingAt |-> -1, goneAt |-> -1]
    /\ current' = DogStart
    /\ target' = innerWidth - DogWidth
    /\ timers' = ScheduleAll(timers, << Timer("outer", now + OuterMs, 0),
                                        Timer("poll", now + PollMs, 0) >>)
    /\ UNCHANGED <<audio, watched, now, innerWidth, innerHeight, dogErrors, look,
                   extraClicks, duckErrors, loop>>

\* the user presses OK: the rest of checkForWinner, its spawn loop
Dismiss ==
    /\ alertOpen
    /\ rounds < MaxRespawns
    /\ \E n \in SpawnCounts : ducks' = CreateDucks(ducks, n)
    /\ alertOpen' = FALSE
    /\ rounds' = rounds + 1
    /\ UNCHANGED <<audio, watched, now, timers, innerWidth, innerHeight, dogVars, look,
                   extraClicks, duckErrors, loop>>

\* a flap callback that rewrites the whole class attribute, 'shot' included
FlapTickClearsShot ==
    /\ ~alertOpen
    /\ watched \in 1..Len(ducks)
    /\ look' = [look EXCEPT !.flap = ~@]
    /\ ducks' = [ducks EXCEPT ![watched].shot = FALSE]
    /\ UNCHANGED <<audio, watched, now, timers, innerWidth, innerHeight, dogVars,
                   alertOpen, rounds, extraClicks, duckErrors, loop>>

\* the flap interval of the watched duck: duck.classList.toggle('flap')
FlapTick ==
    /\ ~alertOpen
    /\ watched \in 1..Len(ducks)
    /\ look' = [look EXCEPT !.flap = ~@]
    /\ UNCHANGED <<audio, watched, now, timers, innerWidth, innerHeight, dogVars, ducks,
                   alertOpen, rounds, extraClicks, duckErrors, loop>>

\* a move whose random factor can be as large as 1
MovedUpTo(lk, ry, rx) ==
    [lk EXCEPT !.right = (lk.lateralPosition < (rx + 1) * innerWidth),
               !.top = (ry + 1) * innerHeight,
               !.left = (rx + 1) * innerWidth]

\* the duck's look after one run of the move interval's callback
Moved(lk, ry, rx) ==
    [lk EXCEPT !.right = (lk.lateralPosition < rx * innerWidth),
               !.top = ry * innerHeight,
               !.left = rx * innerWidth]

\* a move registered with setTimeout: it runs while the duck is where it
\* was spawned and is not registered again
MoveOnce ==
    /\ ~alertOpen
    /\ watched \in 1..Len(ducks)
    /\ look.left = look.lateralPosition
    /\ ~look.right
    /\ \E ry \in 0..(PosDen - 1), rx \in 0..(PosDen - 1) :
         look' = Moved(look, ry, rx)
    /\ UNCHANGED <<audio, watched, now, timers, innerWidth, innerHeight, dogVars, ducks,
                   alertOpen, rounds, extraClicks, duckErrors, loop>>

\* the move interval of the watched duck
MoveTick ==
    /\ ~alertOpen
    /\ watched \in 1..Len(ducks)
    /\ \E ry \in 0..(PosDen - 1), rx \in 0..(PosDen - 1) :
         look' = Moved(look, ry, rx)
    /\ UNCHANGED <<audio, watched, now, timers, innerWidth, innerHeight, dogVars, ducks,
                   alertOpen, rounds, extraClicks, duckErrors, loop>>

Next ==
    \/ InitialSpawn
    \/ \E d \in 1..Len(ducks) : Click(d)
    \/ \E d \in 1..Len(ducks) : RemoveTimeout(d)
    \/ Dismiss

\* the rounds of the game: spawning, shooting, removal and the win check.
\* The interval callbacks write only `look`, which none of these actions
\* reads; SpecDuck explores them.  No duck is watched here.
Spec == InitWindow(0) /\ [][Next]_vars

NextDuck ==
    \/ InitialSpawn
    \/ \E d \in 1..Len(ducks) : Click(d)
    \/ \E d \in 1..Len(ducks) : RemoveTimeout(d)
    \/ FlapTick
    \/ MoveTick

\* the ducks of the first round with the interval callbacks of its first duck
SpecDuck == InitWindow(1) /\ [][NextDuck]_vars

\* timers that are due do fire, and the user presses OK on the alert
SpecLive ==
    /\ Spec
    /\ WF_vars(InitialSpawn)
    /\ WF_vars(\E d \in 1..Len(ducks) : RemoveTimeout(d))
    /\ WF_vars(Dismiss)

\* the timers of the ducks in the queue, in the order in which they run.
\* The dog's callbacks read and write only the dog and its own timers, so
\* the ducks' timers are followed here apart from them.
DuckKinds == {"spawn", "shot", "flap", "move"}

DuckTimers == SelectSeq(timers, LAMBDA t : t.kind \in DuckKinds)

\* the duck timer the event loop runs next
DuckHeadDue(kind) ==
    /\ ~alertOpen
    /\ DuckTimers # <<>>
    /\ DuckTimers[1].kind = kind
    /\ DuckTimers[1].due <= MaxTime

\* the queue without its first duck timer
DuckTail ==
    LET i == CHOOSE j \in 1..Len(timers) :
                 /\ timers[j].kind \in DuckKinds
                 /\ \A h \in 1..(j - 1) : timers[h].kind \notin DuckKinds
    IN  SubSeq(timers, 1, i - 1) \o SubSeq(timers, i + 1, Len(timers))

\* a 6500 ms timeout of the initial spawn loop at its due time
SpawnDue ==
    /\ DuckHeadDue("spawn")
    /\ now' = DuckTimers[1].due
    /\ timers' = DuckTail
    /\ \E ry \in 0..(PosDen - 1), rx \in 0..(PosDen - 1) : CreateDuck(ry, rx)
    /\ UNCHANGED <<audio, watched, innerWidth, innerHeight, dogVars, alertOpen, rounds,
                   extraClicks, duckErrors, loop>>

\* time passes while the user aims: no duck timer falls due meanwhile and a
\* click after the wait has its timeout within the explored time
Wait ==
    /\ ~alertOpen
    /\ Attached(ducks) # {}
    /\ DuckTimers # <<>> => now + WaitMs <= DuckTimers[1].due
    /\ now + WaitMs + ShotDelayMs <= MaxTime
    /\ now' = now + WaitMs
    /\ UNCHANGED <<audio, watched, timers, innerWidth, innerHeight, dogVars, duckVars,
                   loop>>

\* a click handler that restarts the duck's removal timeout
ClickAtRestart(d) ==
    /\ ~alertOpen
    /\ ducks[d].attached
    /\ DuckTimers # <<>> => DuckTimers[1].due > now
    /\ now + ShotDelayMs <= MaxTime
    /\ IF ducks[d].shot
       THEN /\ extraClicks < MaxExtraClicks
            /\ extraClicks' = extraClicks + 1
       ELSE extraClicks' = extraClicks
    /\ ducks' = [ducks EXCEPT ![d].shot = TRUE, ![d].pending = 1,
                              ![d].clicks = @ + 1,
                              ![d].shotAt = IF ducks[d].shot THEN @ ELSE now]
    /\ timers' = Schedule(SelectSeq(timers,
                             LAMBDA t : ~(t.kind = "shot" /\ t.idx = d)),
                          Timer("shot", now + ShotDelayMs, d))
    /\ UNCHANGED <<audio, watched, now, innerWidth, innerHeight, dogVars, look,
                   alertOpen, rounds, duckErrors, loop>>

\* the click handler at time `now`: the 500 ms timeout joins the timer queue.
\* The click event is taken once the callbacks due at `now` have run; clicks
\* whose timeout is due after the explored time are left out.
ClickAt(d) ==
    /\ ~alertOpen
    /\ ducks[d].attached
    /\ DuckTimers # <<>> => DuckTimers[1].due > now
    /\ now + ShotDelayMs <= MaxTime
    /\ IF ducks[d].shot
       THEN /\ extraClicks < MaxExtraClicks
            /\ extraClicks' = extraClicks + 1
       ELSE extraClicks' = extraClicks
    /\ ducks' = [ducks EXCEPT ![d].shot = TRUE, ![d].pending = @ + 1,
                              ![d].clicks = @ + 1,
                              ![d].shotAt = IF ducks[d].shot THEN @ ELSE now]
    /\ timers' = Schedule(timers, Timer("shot", now + ShotDelayMs, d))
    /\ UNCHANGED <<audio, watched, now, innerWidth, innerHeight, dogVars, look,
                   alertOpen, rounds, duckErrors, loop>>

\* the 500 ms timeout of a click, run in its turn, up to the alert
ShotTimeout ==
    /\ DuckHeadDue("shot")
    /\ now' = DuckTimers[1].due
    /\ timers' = DuckTail
    /\ LET d == DuckTimers[1].idx
       IN  IF ducks[d].attached
           THEN /\ ducks' = [ducks EXCEPT ![d] = Removed(@)]
                /\ alertOpen' = NoDucksLeft(ducks')
                /\ duckErrors' = duckErrors
           ELSE /\ ducks' = [ducks EXCEPT ![d] = RemoveThrew(@)]
                /\ duckErrors' = duckErrors + 1
                /\ alertOpen' = alertOpen
    /\ UNCHANGED <<audio, watched, innerWidth, innerHeight, dogVars, look, rounds,
                   extraClicks, loop>>

NextShot ==
    \/ SpawnDue
    \/ Wait
    \/ \E d \in 1..Len(ducks) : ClickAt(d)
    \/ ShotTimeout

\* the first round in real time: clicks and the ducks' timeouts
SpecShot == InitWindow(0) /\ [][NextShot]_vars

\* a move delay of (Math.random() * 2000) + 500
MoveDelayUpTo2500(k) == (k * (MoveSpan + MoveBase)) \div PeriodDen + MoveBase

\* (Math.random() * 200) + 100 with Math.random() = k/PeriodDen, as the
\* whole number of ms a timer takes for its delay
FlapDelay(k) == (k * FlapSpan) \div PeriodDen + FlapBase

\* (Math.random() * 1500) + 500
MoveDelay(k) == (k * MoveSpan) \div PeriodDen + MoveBase

\* the duck timer the event loop runs next, within the flight followed
TickDue(kind) ==
    /\ ~alertOpen
    /\ DuckTimers # <<>>
    /\ DuckTimers[1].kind = kind
    /\ DuckTimers[1].due <= SpawnDelayMs + MaxFlight

\* a 6500 ms spawn timeout at its due time; createDuck registers the two
\* intervals, whose delays are drawn once (idx keeps the draw)
SpawnFlying ==
    /\ TickDue("spawn")
    /\ now' = DuckTimers[1].due
    /\ \E ry \in 0..(PosDen - 1), rx \in 0..(PosDen - 1) : CreateDuck(ry, rx)
    /\ IF Len(ducks) + 1 = watched
       THEN \E kf \in 0..(PeriodDen - 1), km \in 0..(PeriodDen - 1) :
              timers' = ScheduleAll(DuckTail,
                          << Timer("flap", now' + FlapDelay(kf), kf),
                             Timer("move", now' + MoveDelay(km), km) >>)
       ELSE timers' = DuckTail
    /\ UNCHANGED <<audio, watched, innerWidth, innerHeight, dogVars, alertOpen,
                   rounds, extraClicks, duckErrors, loop>>

\* the flap interval's callback at its due time; the interval runs again
\* after the same delay
FlapDue ==
    /\ TickDue("flap")
    /\ now' = DuckTimers[1].due
    /\ timers' = Schedule(DuckTail,
                    Timer("flap", DuckTimers[1].due + FlapDelay(DuckTimers[1].idx),
                          DuckTimers[1].idx))
    /\ look' = [look EXCEPT !.flap = ~@]
    /\ UNCHANGED <<audio, watched, innerWidth, innerHeight, dogVars, ducks, alertOpen,
                   rounds, extraClicks, duckErrors, loop>>

\* the move interval's callback at its due time
MoveDue ==
    /\ TickDue("move")
    /\ now' = DuckTimers[1].due
    /\ timers' = Schedule(DuckTail,
                    Timer("move", DuckTimers[1].due + MoveDelay(DuckTimers[1].idx),
                          DuckTimers[1].idx))
    /\ \E ry \in 0..(PosDen - 1), rx \in 0..(PosDen - 1) :
         look' = Moved(look, ry, rx)
    /\ UNCHANGED <<audio, watched, innerWidth, innerHeight, dogVars, ducks, alertOpen,
                   rounds, extraClicks, duckErrors, loop>>

NextTick ==
    \/ SpawnFlying
    \/ FlapDue
    \/ MoveDue

\* the first duck's two intervals in real time
SpecTick == InitWindow(1) /\ [][NextTick]_vars

\* the page loaded in any window size, the sound playing, the first duck watched
InitWatched ==
    \E w \in Widths, h \in Heights : Load(w, h, 1) /\ audio = "playing"

NextFly ==
    \/ InitialSpawn
    \/ FlapTick
    \/ MoveTick
    \/ Resize

\* the first duck flying, unshot, while the user resizes the window
SpecFly == InitWatched /\ [][NextFly]_vars

(* ---------------------- the spawn loop, step by step ------------------ *)

\* for (let i = 0; ...): the initial loop (line 337) or checkForWinner's
LoopEnter ==
    /\ loop.done
    /\ \E site \in {"initial", "respawn"} :
         loop' = [site |-> site, i |-> 0, r |-> 0, made |-> 0, done |-> FALSE]
    /\ UNCHANGED <<audio, watched, now, timers, innerWidth, innerHeight, dogVars, duckVars>>

\* one test i < (Math.random() * 7) + 3 and, if it holds, the body and i++
LoopTest ==
    /\ ~loop.done
    /\ \E k \in 0..(LoopDen - 1) :
         loop' = IF LoopContinues(loop.i, k)
                 THEN [loop EXCEPT !.r = k, !.i = @ + 1, !.made = @ + 1]
                 ELSE [loop EXCEPT !.r = k, !.done = TRUE]
    /\ UNCHANGED <<audio, watched, now, timers, innerWidth, innerHeight, dogVars, duckVars>>

NextLoop == LoopEnter \/ LoopTest

SpecLoop == InitWindow(0) /\ [][NextLoop]_vars

(* ----------------- the jQuery variant (REFACTORING.md) ---------------- *)

\* The page of the jQuery variant has no dog and plays no sound; its ducks
\* are created when the document is ready.  Its click handling is followed
\* here in real time, with the same variables; the flap and move intervals
\* of its ducks write only their style and are left out.

\* a duck right after createDuck(): its click handler is attached
JqNewDuck == [attached |-> TRUE, shot |-> FALSE, pending |-> 0,
              clicks |-> 0, detaches |-> 0, winChecks |-> 0, shotAt |-> 0,
              listening |-> TRUE]

\* the state when the ready handler returns
JqLoad ==
    /\ audio = "none"
    /\ watched = 0
    /\ now = 0
    /\ innerWidth = 1024
    /\ innerHeight = 768
    /\ dog = [attached |-> FALSE, classes |-> {}, left |-> 0,
              top |-> [n |-> 0, unit |-> ""],
              surprisedAt |-> -1, leapingAt |-> -1, goneAt |-> -1]
    /\ current = 0
    /\ target = 0
    /\ dogErrors = 0
    /\ timers = <<>>
    /\ ducks = [i \in 1..JqNumDucks |-> JqNewDuck]
    /\ look = NoLook
    /\ alertOpen = FALSE
    /\ rounds = 0
    /\ extraClicks = 0
    /\ duckErrors = 0
    /\ loop = [site |-> "none", i |-> 0, r |-> 0, made |-> 0, done |-> TRUE]

\* checkForWinner(): $('body').children(0).length === 1, the body holding
\* the ducks and one other element
JqCheckForWinner(ds) == DuckCount(ds) + JqBodyOthers = 1

\* a click handler without shootDuck.off(): every click is handled
JqClickKeepsHandler(d) ==
    /\ ~alertOpen
    /\ ducks[d].attached
    /\ IF ducks[d].shot
       THEN /\ extraClicks < MaxExtraClicks
            /\ extraClicks' = extraClicks + 1
       ELSE extraClicks' = extraClicks
    /\ ducks' = [ducks EXCEPT ![d].shot = TRUE, ![d].pending = @ + 1,
                              ![d].clicks = @ + 1,
                              ![d].shotAt = IF ducks[d].shot THEN @ ELSE now]
    /\ timers' = Schedule(timers, Timer("shot", now + JqShotDelayMs, d))
    /\ UNCHANGED <<audio, watched, now, innerWidth, innerHeight, dogVars, look,
                   alertOpen, rounds, duckErrors, loop>>

\* a click on a duck: the handler, if still attached, adds 'shot', detaches
\* itself with shootDuck.off() and registers the 250 ms timeout; without a
\* handler the click does nothing
JqClick(d) ==
    /\ ~alertOpen
    /\ ducks[d].attached
    /\ IF ducks[d].listening
       THEN /\ ducks' = [ducks EXCEPT ![d].shot = TRUE, ![d].listening = FALSE,
                                      ![d].pending = @ + 1, ![d].clicks = @ + 1,
                                      ![d].shotAt = now]
            /\ timers' = Schedule(timers, Timer("shot", now + JqShotDelayMs, d))
            /\ extraClicks' = extraClicks
       ELSE /\ extraClicks < MaxExtraClicks
            /\ extraClicks' = extraClicks + 1
            /\ ducks' = [ducks EXCEPT ![d].clicks = @ + 1]
            /\ timers' = timers
    /\ UNCHANGED <<audio, watched, now, innerWidth, innerHeight, dogVars, look,
                   alertOpen, rounds, duckErrors, loop>>

\* the duck after $newDuck.remove() and the call of checkForWinner();
\* remove() on an element that is not in the document does nothing
JqRemoved(duck) ==
    [duck EXCEPT !.pending = @ - 1, !.attached = FALSE,
                 !.detaches = IF duck.attached THEN @ + 1 ELSE @,
                 !.winChecks = @ + 1]

\* the 250 ms timeout of a click, up to the alert
JqShotTimeout ==
    /\ ~alertOpen
    /\ timers # <<>>
    /\ now' = timers[1].due
    /\ timers' = Tail(timers)
    /\ ducks' = [ducks EXCEPT ![timers[1].idx] = JqRemoved(@)]
    /\ alertOpen' = JqCheckForWinner(ducks')
    /\ UNCHANGED <<audio, watched, innerWidth, innerHeight, dogVars, look, rounds,
                   extraClicks, duckErrors, loop>>

\* time passes while the user aims and no timeout falls due; the waiting
\* followed is capped at JqMaxWait
JqWait ==
    /\ ~alertOpen
    /\ timers # <<>>
    /\ now + WaitMs <= timers[1].due
    /\ now + WaitMs <= JqMaxWait
    /\ now' = now + WaitMs
    /\ UNCHANGED <<audio, watched, timers, innerWidth, innerHeight, dogVars, duckVars,
                   loop>>

\* the user presses OK: $body.reset() is not a function and throws
JqDismiss ==
    /\ alertOpen
    /\ alertOpen' = FALSE
    /\ duckErrors' = duckErrors + 1
    /\ UNCHANGED <<audio, watched, now, timers, innerWidth, innerHeight, dogVars, ducks,
                   look, rounds, extraClicks, loop>>

NextJq ==
    \/ \E d \in 1..Len(ducks) : JqClick(d)
    \/ JqShotTimeout
    \/ JqWait
    \/ JqDismiss

SpecJq == JqLoad /\ [][NextJq]_vars

(* ------------------------------ claims -------------------------------- *)

DogKinds == {"outer", "inner", "step", "surprise", "leap", "remove", "poll"}

RECURSIVE Detaches(_)
Detaches(ds) ==
    IF ds = <<>> THEN 0 ELSE Head(ds).detaches + Detaches(Tail(ds))

\* C1: once a duck is removed, no timer callback changes its position,
\* direction or flap phase again (stated for the watched duck)
C1_RemovedDuckFrozen ==
    [][(watched \in 1..Len(ducks) /\ ~ducks[watched].attached)
          => look' = look]_vars

\* C2: whatever the number of clicks on a duck, it is detached at most once
\* and checkForWinner is called at most once on its behalf, and exactly once
\* each when it is detached or all its removal callbacks have run
C2_OneEliminationPerDuck ==
    \A d \in 1..Len(ducks) :
        /\ ducks[d].detaches <= 1
        /\ ducks[d].winChecks <= 1
        /\ ducks[d].winChecks = ducks[d].detaches
        /\ (~ducks[d].attached \/ (ducks[d].shot /\ ducks[d].pending = 0))
             => ducks[d].detaches = 1

\* a duck clicked twice whose removal callbacks have all run
C2_Witness ==
    \E d \in 1..Len(ducks) :
        /\ ducks[d].clicks >= 2
        /\ ducks[d].pending = 0
        /\ ducks[d].detaches = 1
        /\ ducks[d].winChecks = 1

\* C3: no removal callback evaluates duck.parentNode.removeChild on a duck
\* that is already detached, so no TypeError is thrown
C3_NoRemoveOnDetachedDuck == duckErrors = 0

\* C4: the alert of a win opens exactly in the step in which the count of
\* ducks present drops to 0; a batch is spawned only from an open alert,
\* with no duck present, and closes it; so there is one batch per drop to 0
C4_OneRoundPerWin ==
    [][ /\ (~alertOpen /\ alertOpen')
            <=> (DuckCount(ducks) > 0 /\ DuckCount(ducks') = 0)
        /\ (rounds' # rounds)
            => /\ alertOpen /\ ~alertOpen'
               /\ rounds' = rounds + 1
               /\ DuckCount(ducks) = 0
               /\ DuckCount(ducks') >= SpawnBase
        /\ (alertOpen /\ ~alertOpen') => rounds' = rounds + 1
        /\ alertOpen' => DuckCount(ducks') = 0 ]_vars

\* a second round in which a duplicate removal callback of a duck has run
C4_Witness ==
    /\ rounds = 1
    /\ duckErrors >= 1
    /\ DuckCount(ducks) >= SpawnBase
    /\ \E d \in 1..Len(ducks) : ~ducks[d].attached /\ ducks[d].clicks >= 2

\* C5: when either spawn loop ends it has made between 3 and 10 ducks,
\* for every sequence of draws of Math.random()
C5_SpawnCountInRange ==
    (loop.done /\ loop.site # "none")
        => /\ loop.made >= 3
           /\ loop.made <= 10
           /\ loop.made \in LoopCounts(0)

\* the respawn loop has ended after 10 ducks
C5_Witness == loop.done /\ loop.site = "respawn" /\ loop.made = 10

\* every duck present has been shot and no alert is open
RoundShot ==
    /\ ~SpawnPending
    /\ ~alertOpen
    /\ Attached(ducks) # {}
    /\ \A d \in Attached(ducks) : ducks[d].shot

\* round r has just begun: 3 to 10 ducks are present, none of them clicked
FreshRound(r) ==
    /\ rounds = r
    /\ ~alertOpen
    /\ DuckCount(ducks) >= 3
    /\ DuckCount(ducks) <= 10
    /\ \A d \in Attached(ducks) : ~ducks[d].shot /\ ducks[d].clicks = 0

\* C6: once every duck of the round is shot, eventually all are removed and
\* the win alert opens, and once it is open a new round of 3 to 10 fresh
\* ducks begins
C6_ShotRoundRestarts ==
    \A r \in 0..(MaxRespawns - 1) :
        /\ (rounds = r /\ RoundShot)
              ~> (rounds = r /\ alertOpen /\ DuckCount(ducks) = 0)
        /\ (rounds = r /\ alertOpen) ~> FreshRound(r + 1)

\* a new round has begun after a win
C6_Witness == rounds >= 1 /\ FreshRound(rounds)

\* C7: the count of ducks present goes down by exactly 1 in every step
\* that detaches a duck, goes up only in a step that creates ducks, and
\* changes in no other step
C7_CountStepsByOne ==
    [][ /\ Detaches(ducks') \in {Detaches(ducks), Detaches(ducks) + 1}
        /\ (Detaches(ducks') = Detaches(ducks) + 1)
              => DuckCount(ducks') = DuckCount(ducks) - 1
        /\ (Detaches(ducks') = Detaches(ducks))
              => \/ DuckCount(ducks') = DuckCount(ducks)
                 \/ /\ Len(ducks') > Len(ducks)
                    /\ DuckCount(ducks') - DuckCount(ducks)
                         = Len(ducks') - Len(ducks)
        /\ DuckCount(ducks') >= 0 ]_vars

\* two of the three ducks of a round have been eliminated
C7_Witness ==
    /\ Len(ducks) = 3
    /\ DuckCount(ducks) = 1
    /\ Detaches(ducks) = 2

\* C8: once 'surprise' has been replaced by 'leap-into-bushes', no callback
\* puts the dog into 'surprise' again
C8_SurprisedOnce ==
    [][("leap-into-bushes" \in dog.classes /\ "surprise" \notin dog.classes)
          => "surprise" \notin dog.classes']_vars

\* C9: once the dog has reached the middle, no step changes its horizontal
\* position and the reached-middle test stays true
C9_NeverWalksAgain ==
    [][DogReachedMiddle
          => /\ current' = current
             /\ dog'.left = dog.left
             /\ DogReachedMiddle']_vars

\* the dog has reached the middle and left, and the window is now so wide
\* that its middle lies beyond the dog's position
C9_Witness ==
    /\ DogReachedMiddle
    /\ ~dog.attached
    /\ 2 * current <= innerWidth - DogWidth

\* C10: once the dog is removed, none of its timers is left to fire
C10_DogTimersCancelled ==
    ~dog.attached => \A i \in 1..Len(timers) : timers[i].kind \notin DogKinds

\* every timer due within the explored time has run
TimersRan == timers = <<>> \/ timers[1].due > MaxTime

\* C11: the dog intro terminates: when the timers due within the explored
\* time have run, the dog has reached the middle and is detached from the
\* document, and a detached dog is never attached again
C11_DogIntroTerminates ==
    [][ /\ TimersRan' => (DogReachedMiddle' /\ ~dog'.attached)
        /\ ~dog.attached => ~dog'.attached ]_vars

\* the dog has left a page loaded at the widest window
C11_Witness ==
    /\ TimersRan
    /\ ~dog.attached
    /\ \A w \in Widths : target >= w - DogWidth

\* createDuck or the move callback has just written the watched duck's position
PositionWritten ==
    \/ Len(ducks) < watched /\ Len(ducks') >= watched
    \/ look'.top # look.top
    \/ look'.left # look.left

\* C12: right after a duck is spawned and after every move, its left
\* coordinate lies in [0, innerWidth) and its top coordinate in
\* [0, innerHeight), for the window size at that moment
C12_PositionInViewport ==
    [][PositionWritten
          => /\ 0 <= look'.left
             /\ look'.left < PosDen * innerWidth'
             /\ 0 <= look'.top
             /\ look'.top < PosDen * innerHeight']_vars

\* a duck spawned in a wide window has moved after the window was narrowed
C12_Witness ==
    /\ watched \in 1..Len(ducks)
    /\ look.lateralPosition >= PosDen * innerWidth
    /\ look.left > 0
    /\ look.left < PosDen * innerWidth
    /\ look.top > 0

\* C13: from the click that shoots a duck until its removal, no callback
\* repositions it or toggles its flap phase (stated for the watched duck)
C13_ShotDuckFrozen ==
    [][(/\ watched \in 1..Len(ducks)
        /\ ducks[watched].shot
        /\ ducks[watched].attached)
          => look' = look]_vars

\* C14: a duck is detached only when it has been shot, in a step exactly
\* 500 ms after the first click on it
C14_RemovedAfterShotDelay ==
    [][\A d \in 1..Len(ducks) :
          (ducks[d].attached /\ ~ducks'[d].attached)
             => /\ ducks[d].shot
                /\ ducks[d].clicks >= 1
                /\ now' = ducks[d].shotAt + ShotDelayMs]_vars

\* a duck clicked again after the click that shot it has been removed, the
\* later click's timeout still waiting
C14_Witness ==
    \E d \in 1..Len(ducks) :
        /\ ~ducks[d].attached
        /\ now = ducks[d].shotAt + ShotDelayMs
        /\ \E i \in 1..Len(timers) :
              /\ timers[i].kind = "shot"
              /\ timers[i].idx = d
              /\ timers[i].due > now

\* C15: after every move the duck has the class 'right' exactly if its new
\* left coordinate is greater than the one it had just before the move
\* (stated for the moves of the watched duck that change its position)
C15_FacesDirectionOfMove ==
    [][(/\ watched \in 1..Len(ducks)
        /\ (look'.left # look.left \/ look'.top # look.top))
          => (look'.right <=> look'.left > look.left)]_vars

\* the ducks that have not been shot
Alive(ds) == {d \in 1..Len(ds) : ds[d].attached /\ ~ds[d].shot}

\* C16: the count the win check reads equals the number of ducks not yet
\* shot, and the win alert opens in the step that shoots the last of them
C16_CountIsAliveDucks ==
    /\ DuckCount(ducks) = Cardinality(Alive(ducks))
    /\ alertOpen <=> (Len(ducks) > 0 /\ Alive(ducks) = {})

\* C17: once the dog's position has reached or passed the target, the
\* position equal to the target included, it takes no further step
C17_StopsAtTarget ==
    [][2 * current >= target => current' = current]_vars

\* C18: when the initial ducks are created, 6500 ms after load, the dog has
\* already been removed from the document
C18_DucksAfterDog == ducks # <<>> => ~dog.attached

\* the calls of createDog so far: each registers one outer interval, and no
\* interval is ever cleared
DogIntros == Cardinality({i \in 1..Len(timers) : timers[i].kind = "outer"})

\* C19: createDog has been called exactly once, and the start of a new
\* round changes neither the dog element nor the registered timers
C19_DogCreatedOnce ==
    [][ /\ DogIntros = 1
        /\ DogIntros' = 1
        /\ rounds' # rounds
             => /\ dog' = dog
                /\ current' = current
                /\ target' = target
                /\ timers' = timers ]_vars

\* a round started after a win, some ducks of the first round removed
C19_Witness ==
    /\ rounds = MaxRespawns
    /\ DogIntros = 1
    /\ DuckCount(ducks) > 0
    /\ Len(ducks) > DuckCount(ducks)

\* C20: a click on a duck that is already shot leaves every duck's shot and
\* attached state and every duck's pending removal timeouts as they were
C20_ExtraClickIsNoOp ==
    [][(\E d \in 1..Len(ducks) :
           ducks[d].shot /\ ducks'[d].clicks > ducks[d].clicks)
          => /\ Len(ducks') = Len(ducks)
             /\ \A e \in 1..Len(ducks) :
                   /\ ducks'[e].shot = ducks[e].shot
                   /\ ducks'[e].attached = ducks[e].attached
                   /\ ducks'[e].pending = ducks[e].pending]_vars

\* C21: the win notification does not halt the page: while it is shown, the
\* interval callbacks of the ducks can still run
C21_AlertNonBlocking == alertOpen => ENABLED (FlapTick \/ MoveTick)

\* C22: when the start-round sound fails to play, the dog has still been
\* created and the initial ducks are still scheduled, and they are spawned
\* when their timeouts have run
C22_RoundStartsWithoutSound ==
    audio = "rejected"
        => /\ DogIntros = 1
           /\ dog.attached \/ DogReachedMiddle
           /\ SpawnPending \/ Len(ducks) >= SpawnBase
           /\ \A i \in 1..Len(timers) :
                 timers[i].kind = "spawn" => timers[i].due = SpawnDelayMs
           /\ now > SpawnDelayMs => ~SpawnPending

\* the sound did not play, the dog has left and the ducks are there
C22_Witness ==
    /\ audio = "rejected"
    /\ ~dog.attached
    /\ ~SpawnPending
    /\ Len(ducks) >= SpawnBase

\* C23: the dog first gets 'leap-into-bushes' exactly 1000 ms after it first
\* got 'surprise' and is detached exactly 500 ms after that; it is never
\* leaping without having been surprised, nor detached without having leapt
C23_ExitDwellTimes ==
    /\ dog.leapingAt >= 0
         => /\ dog.surprisedAt >= 0
            /\ dog.leapingAt = dog.surprisedAt + LeapMs
    /\ dog.goneAt >= 0
         => /\ dog.leapingAt >= 0
            /\ dog.goneAt = dog.leapingAt + (GoneMs - LeapMs)
    /\ "leap-into-bushes" \in dog.classes <=> dog.leapingAt >= 0
    /\ dog.attached <=> dog.goneAt < 0
    /\ "surprise" \in dog.classes => dog.surprisedAt >= 0

\* the dog has gone through all three exit steps
C23_Witness ==
    /\ dog.surprisedAt >= 0
    /\ dog.leapingAt > dog.surprisedAt
    /\ dog.goneAt > dog.leapingAt
    /\ ~dog.attached

\* C24: while a duck is alive its move callback stays registered and can
\* run: however often it has run, it can reposition the duck again
\* (stated for the watched duck)
C24_MoveRepeats ==
    (/\ watched \in 1..Len(ducks)
     /\ ducks[watched].attached
     /\ ~ducks[watched].shot)
        => ENABLED <<MoveTick>>_vars

\* the watched duck is alive and away from where it was spawned, and another
\* duck has been shot and removed
C24_Witness ==
    /\ watched \in 1..Len(ducks)
    /\ ducks[watched].attached
    /\ ~ducks[watched].shot
    /\ look.left # look.lateralPosition
    /\ look.right
    /\ \E d \in 1..Len(ducks) : ~ducks[d].attached

\* the timers of a kind that a step has registered
Registered(kind) ==
    {i \in 1..Len(timers') :
        /\ timers'[i].kind = kind
        /\ \A j \in 1..Len(timers) : timers[j] # timers'[i]}

\* C25: every run of the move callback comes at least 500 and less than
\* 2000 ms after the one before (or after the spawn), and every flap toggle
\* at least 100 and less than 300 ms after the one before, for every draw:
\* each interval timer runs at its due time, and is registered with a
\* delay in that range
C25_DelaysInRange ==
    [][ /\ \A i \in Registered("move") :
              /\ timers'[i].due - now' >= 500
              /\ timers'[i].due - now' < 2000
        /\ \A i \in Registered("flap") :
              /\ timers'[i].due - now' >= 100
              /\ timers'[i].due - now' < 300
        /\ now' # now => \E j \in 1..Len(timers) :
                            /\ timers[j].kind \in DuckKinds
                            /\ timers[j].due = now' ]_vars

\* the move callback has run twice on the longest delay drawn
C25_Witness ==
    /\ watched \in 1..Len(ducks)
    /\ \E i \in 1..Len(timers) :
          /\ timers[i].kind = "move"
          /\ timers[i].idx = PeriodDen - 1
          /\ timers[i].due = SpawnDelayMs + 3 * MoveDelay(PeriodDen - 1)

\* the timeouts of an inner-interval callback that add or remove 'sniff'
SniffSteps == {1, 2, 7, 8}

\* a step in which one of the sniff callbacks runs
SniffCallbackRuns ==
    /\ timers # <<>>
    /\ timers[1].kind = "step"
    /\ timers[1].idx \in SniffSteps
    /\ timers' # timers

\* C26: a callback that adds or removes 'sniff' leaves the dog's horizontal
\* position as it is, and a step that changes 'sniff' does not change the
\* outcome of the reached-middle test
C26_SniffIsCosmetic ==
    [][ /\ SniffCallbackRuns
          => /\ current' = current
             /\ dog'.left = dog.left
             /\ target' = target
        /\ ("sniff" \in dog.classes) # ("sniff" \in dog'.classes)
          => /\ SniffCallbackRuns
             /\ DogReachedMiddle' <=> DogReachedMiddle ]_vars

\* the dog is sniffing part of the way to the middle
C26_Witness ==
    /\ "sniff" \in dog.classes
    /\ current > DogStart
    /\ ~DogReachedMiddle

\* the inner intervals registered so far: none is ever cleared
Inners == Cardinality({i \in 1..Len(timers) : timers[i].kind = "inner"})

\* the dog's intervals and timeouts that are registered and have not run
DogTimers == Cardinality({i \in 1..Len(timers) : timers[i].kind \in DogKinds})

\* the timers one inner interval can have waiting: itself, the eight timeouts
\* of its last run, and the three exit timeouts, alive for 1500 ms, of each of
\* the sixteen timeouts of its last two runs
PerInner == 1 + 8 + 3 * 16

C28_RestartIsInstant ==
    [][(alertOpen /\ ~alertOpen')
          => /\ Cardinality(Alive(ducks')) >= SpawnBase
             /\ Cardinality(Alive(ducks')) = Len(ducks') - Len(ducks)
             /\ now' = now
             /\ timers' = timers
             /\ ~SpawnPending'
             /\ dog' = dog]_vars

\* a duck of the round started after the win has been shot
C28_Witness ==
    /\ rounds >= 1
    /\ ~alertOpen
    /\ \E d \in 1..Len(ducks) : ducks[d].attached /\ ducks[d].shot

\* C29: no dog callback throws: the removal callback never runs on a dog
\* that is already detached
C29_NoDogError == dogErrors = 0

\* C30: the dog never carries 'surprise' and 'leap-into-bushes' together
C30_ExitStatesExclusive ==
    ~("surprise" \in dog.classes /\ "leap-into-bushes" \in dog.classes)

\* the classes of the dog's walking and sniffing sub-states
WalkClasses == {"sniff", "lift-left-leg", "lift-right-leg"}

\* C31: whenever the dog is surprised or leaping, none of 'sniff',
\* 'lift-left-leg' and 'lift-right-leg' is left set
C31_WalkClassesCleared ==
    (dog.classes \cap {"surprise", "leap-into-bushes"} # {})
        => dog.classes \cap WalkClasses = {}

\* C32: the dog's position is always -171 plus a whole number of 20 px
\* steps, never decreases and never exceeds target + 20
C32_DogPositionOnGrid ==
    [][ /\ current' >= current
        /\ current' >= DogStart
        /\ (current' - DogStart) % StepPx = 0
        /\ current' - current \in {0, StepPx}
        /\ 2 * current' <= target' + 2 * StepPx
        /\ dog'.left = current' ]_vars

\* the dog stands exactly 20 px beyond the target, with several inner
\* intervals running
C32_Witness ==
    /\ 2 * current = target + 2 * StepPx
    /\ Inners >= 2
    /\ dog.left = current

\* C33: a duck only goes from alive to shot to removed: no step clears
\* 'shot', no step re-attaches a detached duck, a duck is detached only when
\* shot, and no step takes a duck away from the list
C33_LifecycleMonotone ==
    [][ /\ Len(ducks') >= Len(ducks)
        /\ \A d \in 1..Len(ducks) :
              /\ ducks[d].shot => ducks'[d].shot
              /\ ~ducks[d].attached => ~ducks'[d].attached
              /\ ~ducks'[d].attached => ducks[d].shot ]_vars

\* the watched duck was shot and removed and its flap callback has run; one
\* duck is shot and still there, another is alive
C33_Witness ==
    /\ watched \in 1..Len(ducks)
    /\ ducks[watched].shot
    /\ ~ducks[watched].attached
    /\ look.flap
    /\ \E d \in 1..Len(ducks) : ducks[d].attached /\ ducks[d].shot
    /\ Alive(ducks) # {}

\* C34: in the 6500 ms before the first ducks exist no win is declared, and
\* checkForWinner is called only in a step that has just detached a duck,
\* so a win is declared only in such a step
C34_NoWinBeforeDucks ==
    /\ [](/\ now < SpawnDelayMs => Len(ducks) = 0
          /\ Len(ducks) = 0 => ~alertOpen
          /\ \A d \in 1..Len(ducks) : ducks[d].winChecks <= ducks[d].detaches)
    /\ [][ /\ \A d \in 1..Len(ducks) :
                 ducks'[d].winChecks # ducks[d].winChecks
                    => /\ ducks[d].attached
                       /\ ~ducks'[d].attached
                       /\ ducks'[d].winChecks = ducks[d].winChecks + 1
           /\ (~alertOpen /\ alertOpen')
                 => \E d \in 1..Len(ducks) :
                       /\ ducks[d].attached
                       /\ ~ducks'[d].attached
                       /\ ducks'[d].winChecks = ducks[d].winChecks + 1 ]_vars

\* the win has been declared, 500 ms after the last duck was shot
C34_Witness ==
    /\ alertOpen
    /\ now >= SpawnDelayMs + ShotDelayMs
    /\ Len(ducks) >= SpawnBase
    /\ \A d \in 1..Len(ducks) : ducks[d].winChecks = 1

\* C35: a step that shoots or removes a duck changes nothing of any other
\* duck, and leaves the position, direction and flap phase of the watched
\* duck as they were
C35_OtherDucksUntouched ==
    [][\A d \in 1..Len(ducks) :
          ducks'[d] # ducks[d]
             => /\ \A e \in 1..Len(ducks) : e # d => ducks'[e] = ducks[e]
                /\ look' = look]_vars

\* the watched duck is alive, flapping and facing right while one other duck
\* is shot and another has been removed
C35_Witness ==
    /\ watched \in 1..Len(ducks)
    /\ ducks[watched].attached
    /\ ducks[watched].clicks = 0
    /\ look.flap
    /\ look.right
    /\ \E d, e \in 1..Len(ducks) :
          /\ ducks[d].attached /\ ducks[d].shot
          /\ ~ducks[e].attached

\* a step in which the 100 ms responsive check runs
ResponsiveCheckRuns ==
    /\ timers # <<>>
    /\ timers[1].kind = "poll"
    /\ timers' # timers

\* C36: after every responsive check the dog's top is 72vh exactly if the
\* window is higher than 558 px, and otherwise innerHeight - 200 px, also at
\* a height of exactly 558 px
C36_TopFollowsHeight ==
    [][ResponsiveCheckRuns
          => /\ (dog'.top = [n |-> 72, unit |-> "vh"]) <=> innerHeight' > 558
             /\ innerHeight' <= 558
                  => dog'.top = [n |-> innerHeight' - 200, unit |-> "px"]]_vars

\* the check has run at a height of exactly 558 px in a page loaded 1024 px wide
C36_Witness ==
    /\ innerHeight = 558
    /\ dog.top = [n |-> 358, unit |-> "px"]
    /\ target = 1024 - DogWidth
    /\ now >= 2 * PollMs

\* C37: in the jQuery variant the first click on a duck detaches its click
\* handler: a later click on it changes nothing, and its removal, 250 ms
\* after the first click, and its win check happen exactly once
C37_JqOneShotPerDuck ==
    /\ [](\A d \in 1..Len(ducks) :
             /\ ducks[d].pending <= 1
             /\ ducks[d].detaches <= 1
             /\ ducks[d].winChecks = ducks[d].detaches
             /\ ducks[d].shot <=> ~ducks[d].listening
             /\ ducks[d].pending + ducks[d].detaches
                  = (IF ducks[d].shot THEN 1 ELSE 0)
             /\ ~ducks[d].attached <=> ducks[d].detaches = 1)
    /\ [][\A d \in 1..Len(ducks) :
             /\ (ducks[d].shot /\ ducks'[d].clicks > ducks[d].clicks)
                   => /\ timers' = timers
                      /\ ducks' = [ducks EXCEPT ![d].clicks = @ + 1]
             /\ (ducks[d].attached /\ ~ducks'[d].attached)
                   => now' = ducks[d].shotAt + 250]_vars

\* a duck clicked again after its first click has been removed and checked
\* once, and every duck has gone the same way
C37_Witness ==
    /\ alertOpen
    /\ \E d \in 1..Len(ducks) : ducks[d].clicks >= 2
    /\ \A d \in 1..Len(ducks) :
          /\ ~ducks[d].attached
          /\ ducks[d].winChecks = 1

====
